---- MODULE Spec2Model ----
(***************************************************************************)
(* derive-getters: the two derive macros `Getters` and `Dissolve`.         *)
(*                                                                         *)
(* One macro expansion is modelled as a run of the pipeline of             *)
(* dissolve::NamedStruct::try_from (src/dissolve.rs) followed by the       *)
(* `.map(emit).unwrap_or_else(to_compile_error)` of the entry points of    *)
(* src/lib.rs.  The modules extract, faultmsg and getters are not part of  *)
(* the sources at hand; what is needed of them is modelled from the        *)
(* specification and marked so.                                            *)
(*                                                                         *)
(* Identifiers and string literal values are sequences of one-character    *)
(* strings, so that Ident::new can be modelled by what it does.            *)
(***************************************************************************)
EXTENDS Naturals, Sequences, FiniteSets

VARIABLES derive, node, pc, fields, dissolve_rename, error, output

vars == <<derive, node, pc, fields, dissolve_rename, error, output>>

----------------------------------------------------------------------------
(* Bounds of the model *)

\* longest field list of an input struct
MaxFields == 2
\* longest attribute list on an input struct (Dissolve)
MaxAttrs == 2
\* longest attribute list on one field (Getters)
MaxFieldAttrs == 1
\* longest attribute argument list of the exhaustive parser inputs
MaxArgLen == 4

SeqsUpTo(S, n) == UNION {[1..k -> S] : k \in 0..n}

----------------------------------------------------------------------------
(* Option and Result *)

None == <<>>
Some(x) == <<x>>

Ok(v) == [tag |-> "Ok", val |-> v, err |-> "none"]
Err(e) == [tag |-> "Err", val |-> <<>>, err |-> e]
\* a panic of the macro: no value is returned to the caller
Panic(msg) == [tag |-> "Panic", val |-> <<>>, err |-> msg]

----------------------------------------------------------------------------
(* Identifiers *)

S_rename == <<"r", "e", "n", "a", "m", "e">>
S_skip == <<"s", "k", "i", "p">>
S_dissolve == <<"d", "i", "s", "s", "o", "l", "v", "e">>
S_getter == <<"g", "e", "t", "t", "e", "r">>
S_doc == <<"d", "o", "c">>
S_self == <<"s", "e", "l", "f">>

Letters == {"a", "b", "c", "d", "e", "f", "g", "h", "i", "j", "k", "l", "m",
            "n", "o", "p", "q", "r", "s", "t", "u", "v", "w", "x", "y", "z"}
Digits == {"0", "1", "2", "3", "4", "5", "6", "7", "8", "9"}

IsIdentStart(c) == c \in Letters \cup {"_"}
IsIdentContinue(c) == c \in Letters \cup Digits \cup {"_"}

\* what Ident::new accepts; it panics on every other string
IsIdent(s) ==
    /\ Len(s) > 0
    /\ IsIdentStart(s[1])
    /\ \A i \in 2..Len(s) : IsIdentContinue(s[i])

IdentNew(s) == IF IsIdent(s) THEN Ok(s) ELSE Panic("InvalidIdent")

----------------------------------------------------------------------------
(* Tokens of an attribute's argument list *)

TIdent(s) == [kind |-> "Ident", text |-> s]
TPunct(c) == [kind |-> "Punct", text |-> <<c>>]
TLitStr(v) == [kind |-> "LitStr", text |-> v]

TEq == TPunct("=")
TComma == TPunct(",")
TDot == TPunct(".")
TAmp == TPunct("&")

\* input.peek(kw) / input.parse::<kw>() for a custom keyword
PeekKeyword(input, kw) == input # <<>> /\ Head(input) = TIdent(kw)

----------------------------------------------------------------------------
(* Problem (faultmsg) and the errors syn raises itself *)

ProblemKinds == {"NotAStruct", "UnitStruct", "UnnamedFields", "UnnamedField",
                 "InvalidAttribute", "TokensFollowNewName"}

SynErrors == {"ExpectedEq", "ExpectedLitStr", "ExpectedParenthesizedArgs"}

----------------------------------------------------------------------------
(* impl Parse for Rename *)

\* Rename::parse without its test of input.is_empty()
RenameParse_AcceptTrailing(input) ==
    IF PeekKeyword(input, S_rename)
    THEN LET r1 == Tail(input) IN
         IF ~(r1 # <<>> /\ Head(r1) = TEq) THEN Err("ExpectedEq")
         ELSE LET r2 == Tail(r1) IN
              IF ~(r2 # <<>> /\ Head(r2).kind = "LitStr") THEN Err("ExpectedLitStr")
              ELSE LET r == IdentNew(Head(r2).text) IN
                   IF r.tag = "Ok" THEN Ok([name |-> r.val]) ELSE r
    ELSE Err("InvalidAttribute")

RenameParse(input) ==
    IF PeekKeyword(input, S_rename)
    THEN LET r1 == Tail(input) IN
         \* input.parse::<syn::Token![=]>()?
         IF ~(r1 # <<>> /\ Head(r1) = TEq) THEN Err("ExpectedEq")
         ELSE LET r2 == Tail(r1) IN
              \* input.parse::<LitStr>()?
              IF ~(r2 # <<>> /\ Head(r2).kind = "LitStr") THEN Err("ExpectedLitStr")
              ELSE LET name == Head(r2)
                       r3 == Tail(r2)
                   IN IF r3 # <<>>
                      THEN Err("TokensFollowNewName")
                      ELSE LET r == IdentNew(name.text) IN
                           IF r.tag = "Ok" THEN Ok([name |-> r.val]) ELSE r
    ELSE Err("InvalidAttribute")

\* attr.parse_args::<Rename>(): only a #[path(...)] attribute has arguments
ParseArgsRename(attr) ==
    IF attr.meta = "List" THEN RenameParse(attr.args)
    ELSE Err("ExpectedParenthesizedArgs")

----------------------------------------------------------------------------
(* dissolve_rename_from *)

\* the loop body keeping the first rename it found
RenameLoopBody_FirstWins(attr, current) ==
    IF attr.style # "Outer" THEN Ok(current)
    ELSE IF attr.path = S_dissolve
         THEN LET r == ParseArgsRename(attr) IN
              IF r.tag # "Ok" THEN r
              ELSE IF current = None THEN Ok(Some(r.val.name)) ELSE Ok(current)
         ELSE Ok(current)

\* the loop body passing over an attribute that does not parse
RenameLoopBody_SkipMalformed(attr, current) ==
    IF attr.style # "Outer" THEN Ok(current)
    ELSE IF attr.path = S_dissolve
         THEN LET r == ParseArgsRename(attr) IN
              IF r.tag # "Ok" THEN Ok(current) ELSE Ok(Some(r.val.name))
         ELSE Ok(current)

\* one turn of the loop over the attributes; the result is the Result the
\* function returns early with (tag # "Ok") or the next value of `current`
RenameLoopBody(attr, current) ==
    IF attr.style # "Outer" THEN Ok(current)
    ELSE IF attr.path = S_dissolve
         THEN LET r == ParseArgsRename(attr) IN
              IF r.tag # "Ok" THEN r ELSE Ok(Some(r.val.name))
         ELSE Ok(current)

RECURSIVE RenameLoop(_, _)
RenameLoop(attributes, current) ==
    IF attributes = <<>> THEN Ok(current)
    ELSE LET r == RenameLoopBody(Head(attributes), current) IN
         IF r.tag # "Ok" THEN r ELSE RenameLoop(Tail(attributes), r.val)

dissolve_rename_from(attributes) == RenameLoop(attributes, None)

----------------------------------------------------------------------------
(* Shape extractor: extract::named_struct and extract::named_fields *)

\* a DeriveInput is [ident, data, fields, attrs]; `fields` is read for a
\* struct only and is [kind, list]
named_struct(n) ==
    IF n.data = "Struct" THEN Ok(n.fields) ELSE Err("NotAStruct")

named_fields(struct_data) ==
    CASE struct_data.kind = "Named" -> Ok(struct_data.list)
      [] struct_data.kind = "Unnamed" -> Err("UnnamedFields")
      [] OTHER -> Err("UnitStruct")

----------------------------------------------------------------------------
(* dissolve::Field *)

from_field(field) ==
    IF field.ident = None THEN Err("UnnamedField")
    ELSE Ok([ty |-> field.ty, name |-> field.ident[1]])

\* .iter().map(from_field).collect::<Result<Vec<_>>>(): the first error ends it
RECURSIVE CollectFields(_, _)
CollectFields(named, acc) ==
    IF named = <<>> THEN Ok(acc)
    ELSE LET r == from_field(Head(named)) IN
         IF r.tag # "Ok" THEN r
         ELSE CollectFields(Tail(named), Append(acc, r.val))

from_fields_named(fields_named) == CollectFields(fields_named, <<>>)

----------------------------------------------------------------------------
(* dissolve::NamedStruct::emit *)

\* the fold that pushes every field's type into a Punctuated<Type, Token![,]>
TypesOf(fs) == [i \in 1..Len(fs) |-> fs[i].ty]

\* the fold that builds the body: a comma before every field but the first,
\* then the tokens of `self.#field_name`
RECURSIVE FieldsFold(_, _, _)
FieldsFold(fs, count, ts) ==
    IF count >= Len(fs) THEN ts
    ELSE LET field == fs[count + 1]
             sep == IF count > 0 THEN <<TComma>> ELSE <<>>
             field_expr == <<TIdent(S_self), TDot, TIdent(field.name)>>
         IN FieldsFold(fs, count + 1, ts \o sep \o field_expr)

\* the name without the rename
FnName_IgnoreRename(rename) == S_dissolve

\* self.dissolve_rename.as_ref().unwrap_or(&dissolve)
FnName(rename) == IF rename # None THEN rename[1] ELSE S_dissolve

emit(ns) ==
    LET type_tuple == [node |-> "TypeTuple", elems |-> TypesOf(ns.fields)]
        body == FieldsFold(ns.fields, 0, <<>>)
        fn_name == FnName(ns.dissolve_rename)
    IN [impls |-> << [self_ty |-> ns.name,
                      methods |-> << [vis |-> "pub",
                                      fn_name |-> fn_name,
                                      receiver |-> "self",
                                      ret |-> type_tuple,
                                      body |-> [delim |-> "Paren", tokens |-> body]] >>] >>,
        errors |-> <<>>]

\* err.to_compile_error(): a compile_error! invocation and nothing else
to_compile_error(err) == [impls |-> <<>>, errors |-> <<err>>]

NoOutput == [impls |-> <<>>, errors |-> <<>>]

----------------------------------------------------------------------------
(* Getters: the attribute interpreter and the emitter of the getters module *)

DirNone == [kind |-> "None", name |-> <<>>]
DirSkip == [kind |-> "Skip", name |-> <<>>]
DirRename(n) == [kind |-> "Rename", name |-> n]

\* `skip`, or `rename = "<literal>"`; nothing may follow either
GetterParse(input) ==
    IF PeekKeyword(input, S_skip)
    THEN IF Tail(input) # <<>> THEN Err("TokensFollowNewName") ELSE Ok(DirSkip)
    ELSE IF /\ PeekKeyword(input, S_rename)
            /\ Len(input) >= 3
            /\ input[2] = TEq
            /\ input[3].kind = "LitStr"
         THEN IF Len(input) > 3 THEN Err("TokensFollowNewName")
              ELSE Ok(DirRename(input[3].text))
         ELSE Err("InvalidAttribute")

ParseArgsGetter(attr) ==
    IF attr.meta = "List" THEN GetterParse(attr.args) ELSE Err("InvalidAttribute")

\* outer `getter` attributes in source order, the last directive wins
RECURSIVE GetterLoop(_, _)
GetterLoop(attributes, current) ==
    IF attributes = <<>> THEN Ok(current)
    ELSE LET attr == Head(attributes) IN
         IF attr.style = "Outer" /\ attr.path = S_getter
         THEN LET r == ParseArgsGetter(attr) IN
              IF r.tag # "Ok" THEN r ELSE GetterLoop(Tail(attributes), r.val)
         ELSE GetterLoop(Tail(attributes), current)

getter_directive_from(attributes) == GetterLoop(attributes, DirNone)

\* field collector, then the directive of every field, in declaration order
RECURSIVE GetterFields(_, _)
GetterFields(named, acc) ==
    IF named = <<>> THEN Ok(acc)
    ELSE LET field == Head(named)
             d == getter_directive_from(field.attrs)
         IN IF field.ident = None THEN Err("UnnamedField")
            ELSE IF d.tag # "Ok" THEN d
            ELSE GetterFields(Tail(named),
                              Append(acc, [ty |-> field.ty,
                                           name |-> field.ident[1],
                                           directive |-> d.val]))

getters_try_from(n) ==
    LET struct_data == named_struct(n) IN
    IF struct_data.tag # "Ok" THEN struct_data
    ELSE LET named == named_fields(struct_data.val) IN
         IF named.tag # "Ok" THEN named
         ELSE GetterFields(named.val, <<>>)

Getter(field) ==
    [vis |-> "pub",
     fn_name |-> IF field.directive.kind = "Rename" THEN field.directive.name
                 ELSE field.name,
     receiver |-> "&self",
     ret |-> [node |-> "TypeReference", mutable |-> FALSE, elem |-> field.ty],
     body |-> [delim |-> "Brace",
               tokens |-> <<TAmp, TIdent(S_self), TDot, TIdent(field.name)>>]]

\* an accessor for every field, skipped or not
GetterMethods_KeepSkipped(fs) == [i \in 1..Len(fs) |-> Getter(fs[i])]

RECURSIVE GetterMethods(_)
GetterMethods(fs) ==
    IF fs = <<>> THEN <<>>
    ELSE IF Head(fs).directive.kind = "Skip" THEN GetterMethods(Tail(fs))
         ELSE <<Getter(Head(fs))>> \o GetterMethods(Tail(fs))

getters_emit(name, fs) ==
    [impls |-> << [self_ty |-> name, methods |-> GetterMethods(fs)] >>,
     errors |-> <<>>]

----------------------------------------------------------------------------
(* The input items *)

Types == {"u64", "String"}
FieldIdents == {<<"x">>, <<"y">>}

SynField(ident, ty, attrs) == [ident |-> ident, ty |-> ty, attrs |-> attrs]

Attr(style, path, meta, args) ==
    [style |-> style, path |-> path, meta |-> meta, args |-> args]

\* argument lists of a `dissolve` attribute: two well-formed renames, an
\* empty list, a rename lacking `=`, a literal that is no identifier, tokens
\* after the literal
DissolveArgs ==
    { <<TIdent(S_rename), TEq, TLitStr(<<"a">>)>>,
      <<TIdent(S_rename), TEq, TLitStr(<<"b">>)>>,
      <<>>,
      <<TIdent(S_rename)>>,
      <<TIdent(S_rename), TEq, TLitStr(<<"1">>)>>,
      <<TIdent(S_rename), TEq, TLitStr(<<"a">>), TIdent(S_skip)>> }

StructAttrs ==
    {Attr("Outer", S_dissolve, "List", a) : a \in DissolveArgs}
    \cup { Attr("Outer", S_dissolve, "Path", <<>>),
           Attr("Outer", S_doc, "List", <<TIdent(S_skip)>>),
           Attr("Inner", S_dissolve, "List", <<TIdent(S_rename), TEq, TLitStr(<<"b">>)>>),
           Attr("Inner", S_dissolve, "List", <<>>) }

GetterArgs ==
    { <<TIdent(S_skip)>>,
      <<TIdent(S_rename), TEq, TLitStr(<<"a">>)>>,
      <<>>,
      <<TIdent(S_skip), TIdent(S_skip)>> }

FieldAttrs ==
    {Attr("Outer", S_getter, "List", a) : a \in GetterArgs}
    \cup { Attr("Inner", S_getter, "List", <<TIdent(S_skip)>>) }

Item(data, kind, list, attrs) ==
    [ident |-> <<"S">>, data |-> data,
     fields |-> [kind |-> kind, list |-> list], attrs |-> attrs]

\* an enum, a union, a unit struct and a tuple struct
NotNamedItems(attrLists) ==
    { Item(d[1], d[2], d[3], a) :
        d \in { <<"Enum", "Unit", <<>> >>,
                <<"Union", "Unit", <<>> >>,
                <<"Struct", "Unit", <<>> >>,
                <<"Struct", "Unnamed", <<SynField(None, "u64", <<>>)>> >> },
        a \in attrLists }

DissolveFields == {SynField(Some(i), t, <<>>) : i \in FieldIdents, t \in Types}

DissolveItems ==
    NotNamedItems(SeqsUpTo(StructAttrs, 1))
    \cup { Item("Struct", "Named", fl, al) :
             fl \in SeqsUpTo(DissolveFields, MaxFields),
             al \in SeqsUpTo(StructAttrs, MaxAttrs) }

\* the i-th field of a Getters input: distinct names, alternating types
GetterFieldName(i) == <<"f">> \o [k \in 1..i |-> "_"]
GetterFieldType(i) == IF i % 2 = 1 THEN "u64" ELSE "String"

GettersItems ==
    NotNamedItems({<<>>})
    \cup { Item("Struct", "Named",
                [i \in 1..n |-> SynField(Some(GetterFieldName(i)),
                                         GetterFieldType(i), al[i])],
                <<>>) :
             n \in 0..MaxFields,
             al \in [1..MaxFields -> SeqsUpTo(FieldAttrs, MaxFieldAttrs)] }

\* every argument list up to MaxArgLen over these tokens
ArgTokens ==
    { TIdent(S_rename), TIdent(S_skip), TEq,
      TLitStr(<<>>), TLitStr(<<"a">>), TLitStr(<<"1">>) }

ArgLists == SeqsUpTo(ArgTokens, MaxArgLen)

\* one struct with one field and one attribute carrying the argument list
ParseItem(d, args) ==
    IF d = "Dissolve"
    THEN Item("Struct", "Named", <<SynField(Some(<<"x">>), "u64", <<>>)>>,
              <<Attr("Outer", S_dissolve, "List", args)>>)
    ELSE Item("Struct", "Named",
              <<SynField(Some(<<"x">>), "u64",
                         <<Attr("Outer", S_getter, "List", args)>>)>>,
              <<>>)

----------------------------------------------------------------------------
(* One expansion: lib.rs `dissolve` / `getters` *)

Start(d, n) ==
    /\ derive = d
    /\ node = n
    /\ pc = IF d = "Dissolve" THEN "named_struct" ELSE "getters_try_from"
    /\ fields = <<>>
    /\ dissolve_rename = None
    /\ error = "none"
    /\ output = NoOutput

Init ==
    \/ \E n \in DissolveItems : Start("Dissolve", n)
    \/ \E n \in GettersItems : Start("Getters", n)

InitParse ==
    \E d \in {"Dissolve", "Getters"}, args \in ArgLists : Start(d, ParseItem(d, args))

\* `?`: an error leaves try_from at once and reaches unwrap_or_else; a panic
\* unwinds out of the macro
Fail(r) ==
    /\ pc' = IF r.tag = "Err" THEN "to_compile_error" ELSE "panicked"
    /\ error' = r.err

\* let struct_data = named_struct(node)?;
NamedStructStep ==
    /\ pc = "named_struct"
    /\ LET r == named_struct(node) IN
       IF r.tag = "Ok"
       THEN pc' = "named_fields" /\ UNCHANGED error
       ELSE Fail(r)
    /\ UNCHANGED <<derive, node, fields, dissolve_rename, output>>

\* the step without its `?`
NamedFieldsStep_NoAbort ==
    /\ pc = "named_fields"
    /\ pc' = "from_fields_named"
    /\ UNCHANGED <<derive, node, fields, dissolve_rename, output, error>>

\* let named_fields = named_fields(struct_data)?;
NamedFieldsStep ==
    /\ pc = "named_fields"
    /\ LET r == named_fields(named_struct(node).val) IN
       IF r.tag = "Ok"
       THEN pc' = "from_fields_named" /\ UNCHANGED error
       ELSE Fail(r)
    /\ UNCHANGED <<derive, node, fields, dissolve_rename, output>>

\* let fields = Field::from_fields_named(named_fields)?;
FromFieldsNamedStep ==
    /\ pc = "from_fields_named"
    /\ LET r == from_fields_named(node.fields.list) IN
       IF r.tag = "Ok"
       THEN pc' = "dissolve_rename_from" /\ fields' = r.val /\ UNCHANGED error
       ELSE Fail(r) /\ UNCHANGED fields
    /\ UNCHANGED <<derive, node, dissolve_rename, output>>

\* the step taking an attribute error for no rename
DissolveRenameStep_IgnoreError ==
    /\ pc = "dissolve_rename_from"
    /\ LET r == dissolve_rename_from(node.attrs) IN
       /\ pc' = "emit"
       /\ dissolve_rename' = IF r.tag = "Ok" THEN r.val ELSE None
    /\ UNCHANGED <<derive, node, fields, output, error>>

\* let rename = dissolve_rename_from(node.attrs.as_slice())?;
DissolveRenameStep ==
    /\ pc = "dissolve_rename_from"
    /\ LET r == dissolve_rename_from(node.attrs) IN
       IF r.tag = "Ok"
       THEN pc' = "emit" /\ dissolve_rename' = r.val /\ UNCHANGED error
       ELSE Fail(r) /\ UNCHANGED dissolve_rename
    /\ UNCHANGED <<derive, node, fields, output>>

\* Ok(NamedStruct {..}) and .map(|ns| ns.emit())
EmitStep ==
    /\ pc = "emit"
    /\ output' = emit([name |-> node.ident, fields |-> fields,
                       dissolve_rename |-> dissolve_rename])
    /\ pc' = "done"
    /\ UNCHANGED <<derive, node, fields, dissolve_rename, error>>

\* getters::NamedStruct::try_from(&ast)
GettersTryFromStep ==
    /\ pc = "getters_try_from"
    /\ LET r == getters_try_from(node) IN
       IF r.tag = "Ok"
       THEN pc' = "getters_emit" /\ fields' = r.val /\ UNCHANGED error
       ELSE Fail(r) /\ UNCHANGED fields
    /\ UNCHANGED <<derive, node, dissolve_rename, output>>

GettersEmitStep ==
    /\ pc = "getters_emit"
    /\ output' = getters_emit(node.ident, fields)
    /\ pc' = "done"
    /\ UNCHANGED <<derive, node, fields, dissolve_rename, error>>

\* .unwrap_or_else(|err| err.to_compile_error())
ToCompileErrorStep ==
    /\ pc = "to_compile_error"
    /\ output' = to_compile_error(error)
    /\ pc' = "done"
    /\ UNCHANGED <<derive, node, fields, dissolve_rename, error>>

Next ==
    \/ NamedStructStep
    \/ NamedFieldsStep
    \/ FromFieldsNamedStep
    \/ DissolveRenameStep
    \/ EmitStep
    \/ GettersTryFromStep
    \/ GettersEmitStep
    \/ ToCompileErrorStep

Spec == Init /\ [][Next]_vars

SpecParse == InitParse /\ [][Next]_vars

----------------------------------------------------------------------------
(* Reading the state for the properties *)

IsDissolve == derive = "Dissolve"
IsGetters == derive = "Getters"
NamedInput == node.data = "Struct" /\ node.fields.kind = "Named"
Decl == node.fields.list
Succeeded == pc = "done" /\ output.errors = <<>>
TheImpl == output.impls[1]
TheMethod == TheImpl.methods[1]

\* how Rust reads a parenthesised token group: `()` is the empty tuple, a
\* group without a comma is a parenthesised expression, any other a tuple
RECURSIVE SplitAtCommas(_, _, _)
SplitAtCommas(ts, cur, acc) ==
    IF ts = <<>> THEN (IF cur = <<>> THEN acc ELSE Append(acc, cur))
    ELSE IF Head(ts) = TComma
         THEN SplitAtCommas(Tail(ts), <<>>, Append(acc, cur))
         ELSE SplitAtCommas(Tail(ts), Append(cur, Head(ts)), acc)

ParenExpr(ts) ==
    IF ts = <<>> THEN [node |-> "ExprTuple", elems |-> <<>>]
    ELSE IF \A i \in 1..Len(ts) : ts[i] # TComma
         THEN [node |-> "ExprParen", elems |-> <<ts>>]
         ELSE [node |-> "ExprTuple", elems |-> SplitAtCommas(ts, <<>>, <<>>)]

SelfField(name) == <<TIdent(S_self), TDot, TIdent(name)>>

\* the outer `dissolve` attributes of the struct, in source order
IsQualifying(attr) == attr.style = "Outer" /\ attr.path = S_dissolve
Qualifying == SelectSeq(node.attrs, IsQualifying)

\* the list begins `rename = "<string literal>"`
StartsRenameEqLit(args) ==
    /\ Len(args) >= 3
    /\ args[1] = TIdent(S_rename)
    /\ args[2] = TEq
    /\ args[3].kind = "LitStr"

\* an expansion has ended: with a token stream, or by a panic
Ended == pc \in {"done", "panicked"}

----------------------------------------------------------------------------
(* Dissolve: the emitted method *)

\* C1: a successful Dissolve expansion of a named struct with N >= 1 fields
\* emits one impl block with one method taking `self` by value, whose return
\* type is the tuple type of the declared types and whose body is the tuple
\* (self.f1, ..., self.fN), both in declaration order.
C1_DissolveTuple ==
    (IsDissolve /\ Succeeded /\ Len(Decl) >= 1) =>
        /\ Len(output.impls) = 1
        /\ Len(TheImpl.methods) = 1
        /\ TheMethod.receiver = "self"
        /\ TheMethod.ret = [node |-> "TypeTuple",
                            elems |-> [i \in 1..Len(Decl) |-> Decl[i].ty]]
        /\ TheMethod.body.delim = "Paren"
        /\ ParenExpr(TheMethod.body.tokens) =
               [node |-> "ExprTuple",
                elems |-> [i \in 1..Len(Decl) |-> SelfField(Decl[i].ident[1])]]

\* C1 for every N but 1: the part of C1 the code satisfies.
C1_DissolveTupleButOne ==
    (IsDissolve /\ Succeeded /\ Len(Decl) # 1) =>
        /\ Len(output.impls) = 1
        /\ Len(TheImpl.methods) = 1
        /\ TheMethod.receiver = "self"
        /\ TheMethod.ret = [node |-> "TypeTuple",
                            elems |-> [i \in 1..Len(Decl) |-> Decl[i].ty]]
        /\ ParenExpr(TheMethod.body.tokens) =
               [node |-> "ExprTuple",
                elems |-> [i \in 1..Len(Decl) |-> SelfField(Decl[i].ident[1])]]

\* C2: the method is named by the resolved struct-level rename, else
\* `dissolve`; but for its name the method is the one emitted without rename.
C2_RenameOnlyName ==
    (IsDissolve /\ Succeeded) =>
        /\ TheMethod.fn_name = IF Qualifying # <<>>
                               THEN Qualifying[Len(Qualifying)].args[3].text
                               ELSE S_dissolve
        /\ TheMethod.fn_name = IF dissolve_rename # None
                               THEN dissolve_rename[1] ELSE S_dissolve
        /\ [TheMethod EXCEPT !.fn_name = S_dissolve] =
               emit([name |-> node.ident, fields |-> fields,
                     dissolve_rename |-> None]).impls[1].methods[1]

C2_Witness ==
    /\ IsDissolve /\ Succeeded
    /\ Len(Decl) = 2
    /\ Qualifying # <<>>
    /\ TheMethod.fn_name = <<"a">>

----------------------------------------------------------------------------
(* Getters: the emitted accessors *)

\* the directive of a field, read off its last outer `getter` attribute
IsGetterAttr(attr) == attr.style = "Outer" /\ attr.path = S_getter
GetterAttrsOf(f) == SelectSeq(f.attrs, IsGetterAttr)
LastGetterArgs(f) == GetterAttrsOf(f)[Len(GetterAttrsOf(f))].args
IsSkipped(f) == GetterAttrsOf(f) # <<>> /\ LastGetterArgs(f) = <<TIdent(S_skip)>>
IsRenamed(f) == GetterAttrsOf(f) # <<>> /\ StartsRenameEqLit(LastGetterArgs(f))
IsKept(f) == ~IsSkipped(f)

AccessorOf(f) ==
    [vis |-> "pub",
     fn_name |-> IF IsRenamed(f) THEN LastGetterArgs(f)[3].text ELSE f.ident[1],
     receiver |-> "&self",
     ret |-> [node |-> "TypeReference", mutable |-> FALSE, elem |-> f.ty],
     body |-> [delim |-> "Brace", tokens |-> <<TAmp>> \o SelfField(f.ident[1])]]

\* C3: a successful Getters expansion emits, in declaration order, one public
\* accessor for every field not marked skip and none for a skipped field; the
\* accessor is named by the field's rename, else by the field, and returns an
\* immutable reference to that field.
C3_GettersAccessors ==
    (IsGetters /\ Succeeded) =>
        LET kept == SelectSeq(Decl, IsKept) IN
        /\ Len(output.impls) = 1
        /\ TheImpl.methods = [k \in 1..Len(kept) |-> AccessorOf(kept[k])]

C3_Witness ==
    /\ IsGetters /\ Succeeded
    /\ Len(Decl) = 2
    /\ IsSkipped(Decl[1])
    /\ IsRenamed(Decl[2])
    /\ Len(TheImpl.methods) = 1
    /\ TheImpl.methods[1].fn_name = <<"a">>

----------------------------------------------------------------------------
(* Errors *)

ShapeError ==
    CASE node.data # "Struct" -> "NotAStruct"
      [] node.fields.kind = "Unnamed" -> "UnnamedFields"
      [] node.fields.kind = "Unit" -> "UnitStruct"
      [] OTHER -> "none"

TheArgs ==
    IF IsDissolve THEN node.attrs[1].args ELSE Decl[1].attrs[1].args

\* C5: an argument list that does not begin `rename = "<string literal>"`
\* (for Getters: nor `skip`) fails with InvalidAttribute: an empty list,
\* `rename` without `=`, `rename =` without a string literal.
C5_MalformedIsInvalidAttribute ==
    (/\ Ended
     /\ ~StartsRenameEqLit(TheArgs)
     /\ ~(IsGetters /\ PeekKeyword(TheArgs, S_skip))) =>
        /\ pc = "done"
        /\ output = [impls |-> <<>>, errors |-> <<"InvalidAttribute">>]

\* C6: tokens after a valid `rename = "<string literal>"` of a `dissolve`
\* attribute fail with TokensFollowNewName and yield no rename; a rename is
\* yielded only when nothing follows the literal.
C6_TokensFollowNewName ==
    IsDissolve =>
        /\ (StartsRenameEqLit(TheArgs) /\ Len(TheArgs) > 3) =>
               /\ pc \notin {"emit", "panicked"}
               /\ dissolve_rename = None
               /\ pc \in {"to_compile_error", "done"} => error = "TokensFollowNewName"
               /\ pc = "done" =>
                      output = [impls |-> <<>>, errors |-> <<"TokensFollowNewName">>]
        /\ dissolve_rename # None =>
               /\ StartsRenameEqLit(TheArgs)
               /\ Len(TheArgs) = 3
               /\ dissolve_rename = Some(TheArgs[3].text)

C6_Witness ==
    /\ IsDissolve
    /\ pc = "done"
    /\ StartsRenameEqLit(TheArgs)
    /\ Len(TheArgs) = 4
    /\ output.errors = <<"TokensFollowNewName">>

\* exactly `(rename = "<identifier>")`
WellFormed(attr) ==
    /\ attr.meta = "List"
    /\ StartsRenameEqLit(attr.args)
    /\ Len(attr.args) = 3
    /\ IsIdent(attr.args[3].text)

\* the rename step has run
AfterRename == IsDissolve /\ pc \in {"emit", "to_compile_error", "panicked", "done"}

\* C7: the resolved rename is that of the last outer `dissolve` attribute in
\* source order; inner attributes and other paths have no effect; without an
\* outer `dissolve` attribute there is no rename.
C7_LastQualifyingWins ==
    (AfterRename /\ NamedInput
        /\ \A i \in 1..Len(Qualifying) : WellFormed(Qualifying[i])) =>
        /\ error = "none"
        /\ pc \in {"emit", "done"}
        /\ dissolve_rename = IF Qualifying = <<>> THEN None
                             ELSE Some(Qualifying[Len(Qualifying)].args[3].text)

C7_Witness ==
    /\ IsDissolve /\ Succeeded
    /\ Len(node.attrs) = 2
    /\ Len(Qualifying) = 2
    /\ Qualifying[1].args[3].text = <<"a">>
    /\ Qualifying[2].args[3].text = <<"b">>
    /\ dissolve_rename = Some(<<"b">>)

\* C8: an expansion that produces no impl block fails with exactly one of the
\* six kinds of Problem.
C8_CompleteTaxonomy ==
    (Ended /\ output.impls = <<>>) =>
        /\ pc = "done"
        /\ Len(output.errors) = 1
        /\ output.errors[1] \in ProblemKinds

\* every step of dissolve::NamedStruct::try_from succeeds on the input
AllStepsOk ==
    /\ NamedInput
    /\ \A i \in 1..Len(Decl) : Decl[i].ident # None
    /\ IsDissolve => \A i \in 1..Len(Qualifying) : WellFormed(Qualifying[i])

\* C9: an expansion ends with the complete impl block and no diagnostic, or
\* with one diagnostic and no method; an error of any step, an attribute
\* error after the fields were collected included, keeps the emitter from
\* running.
C9_NoPartialOutput ==
    /\ output.impls # <<>> =>
           /\ pc = "done" /\ error = "none" /\ output.errors = <<>>
           /\ Len(output.impls) = 1
           /\ IsDissolve => AllStepsOk
           /\ IsDissolve => Len(TheMethod.ret.elems) = Len(Decl)
    /\ output.errors # <<>> =>
           /\ pc = "done" /\ output.impls = <<>>
           /\ output.errors = <<error>> /\ error # "none"
    /\ pc = "done" => (output.impls # <<>> \/ output.errors # <<>>)
    /\ error # "none" =>
           /\ pc \in {"to_compile_error", "panicked", "done"}
           /\ output.impls = <<>>
    /\ pc \in {"emit", "getters_emit"} => error = "none"

C9_Witness ==
    /\ IsDissolve
    /\ pc = "done"
    /\ Len(fields) = 2
    /\ output = [impls |-> <<>>, errors |-> <<"InvalidAttribute">>]

\* the first outer `dissolve` attribute whose arguments do not parse
Malformed(i) == ParseArgsRename(Qualifying[i]).tag # "Ok"
FirstMalformed ==
    CHOOSE i \in 1..Len(Qualifying) :
        Malformed(i) /\ \A j \in 1..(i - 1) : ~Malformed(j)

\* C10: if an outer `dissolve` attribute is malformed, the expansion fails
\* with the error of the first malformed one, whatever follows it; a rename
\* resolves only if all of them parse.
C10_FirstMalformedAborts ==
    (AfterRename /\ NamedInput) =>
        IF \E i \in 1..Len(Qualifying) : Malformed(i)
        THEN LET r == ParseArgsRename(Qualifying[FirstMalformed]) IN
             /\ error = r.err
             /\ dissolve_rename = None
             /\ (r.tag = "Panic") <=> (pc = "panicked")
             /\ pc \in {"to_compile_error", "panicked", "done"}
             /\ pc = "done" => output = [impls |-> <<>>, errors |-> <<r.err>>]
        ELSE error = "none" /\ pc \in {"emit", "done"}

C10_Witness ==
    /\ IsDissolve
    /\ pc = "done"
    /\ Len(Qualifying) = 2
    /\ Qualifying[1].args = <<>>
    /\ WellFormed(Qualifying[2])
    /\ output = [impls |-> <<>>, errors |-> <<"InvalidAttribute">>]

====
